---- MODULE Spec2Model ----
(***************************************************************************)
(* Model of legacy.py: the Blogger export to Markdown converter.           *)
(*                                                                         *)
(* Strings the code inspects (links, category terms, dates, file names)    *)
(* are sequences of one-character strings, so that the substring tests,    *)
(* str.replace, str.startswith, str.strip and slicing are computed the way *)
(* Python computes them.  Strings the code only copies (title, summary,    *)
(* author name) are TLA+ strings.  A field of a parsed entry that may be   *)
(* absent is a sequence of length 0 (absent) or 1 (present).               *)
(***************************************************************************)
EXTENDS Integers, Sequences, FiniteSets, TLC

\* ------------------------------------------------------------------------
\* Bounds of the model
\* ------------------------------------------------------------------------
MaxEntries == 3
MaxRuns == 2

\* ------------------------------------------------------------------------
\* Python string primitives
\* ------------------------------------------------------------------------

\* `pat in s` on str
Contains(s, pat) ==
    \E k \in 1..(Len(s) - Len(pat) + 1) : SubSeq(s, k, k + Len(pat) - 1) = pat

\* s.startswith(pat)
StartsWith(s, pat) ==
    /\ Len(pat) <= Len(s)
    /\ SubSeq(s, 1, Len(pat)) = pat

\* s.replace(old, new): every non-overlapping occurrence, left to right
RECURSIVE Replace(_, _, _)
Replace(s, old, new) ==
    IF Len(old) = 0
    THEN IF Len(s) = 0 THEN new
         ELSE new \o <<Head(s)>> \o Replace(Tail(s), old, new)
    ELSE IF Len(s) < Len(old) THEN s
    ELSE IF SubSeq(s, 1, Len(old)) = old
         THEN new \o Replace(SubSeq(s, Len(old) + 1, Len(s)), old, new)
         ELSE <<Head(s)>> \o Replace(Tail(s), old, new)

Whitespace == {" "}

\* s.strip()
RECURSIVE Strip(_)
Strip(s) ==
    IF Len(s) = 0 THEN s
    ELSE IF Head(s) \in Whitespace THEN Strip(Tail(s))
    ELSE IF s[Len(s)] \in Whitespace THEN Strip(SubSeq(s, 1, Len(s) - 1))
    ELSE s

\* s[:10]
FirstTen(s) == SubSeq(s, 1, IF Len(s) < 10 THEN Len(s) ELSE 10)

\* ------------------------------------------------------------------------
\* String literals of the code
\* ------------------------------------------------------------------------
BloggerMarker == <<"t", "a", "g", ":", "b", "l", "o", "g", "g", "e", "r", ".", "c", "o", "m">>
CommentsMarker == <<"c", "o", "m", "m", "e", "n", "t", "s">>
SettingsMarker == <<"#", "s", "e", "t", "t", "i", "n", "g", "s">>
CommentMarker == <<"#", "c", "o", "m", "m", "e", "n", "t">>
HtmlExt == <<".", "h", "t", "m", "l">>
MdExt == <<".", "m", "d">>
Http == <<"h", "t", "t", "p">>
Https == <<"h", "t", "t", "p", "s">>
PagePrefix == <<"p", "-">>
Slash == <<"/">>
Dash == <<"-">>
Empty == <<>>
KindPostSentinel == <<"h", "t", "t", "p", "s", ":", "/", "/", "s", "c", "h", "e", "m", "a", "s", ".", "g", "o", "o", "g", "l", "e", ".", "c", "o", "m", "/", "b", "l", "o", "g", "g", "e", "r", "/", "2", "0", "0", "8", "/", "k", "i", "n", "d", "#", "p", "o", "s", "t">>
TimeToRead == 5
DefaultTag == <<"l", "e", "g", "a", "c", "y", "-", "b", "l", "o", "g", "g", "e", "r">>

\* ------------------------------------------------------------------------
\* Inputs: the parsed feed.  An entry is what feedparser hands to main.
\* ------------------------------------------------------------------------
SiteRoot == <<"h", "t", "t", "p", ":", "/", "/", "e", "/">>
LinkAB == <<"h", "t", "t", "p", ":", "/", "/", "e", "/", "a", "/", "b", ".", "h", "t", "m", "l">>
LinkFlat == <<"h", "t", "t", "p", "s", ":", "/", "/", "e", "/", "a", "-", "b", ".", "h", "t", "m", "l">>
LinkPage == <<"h", "t", "t", "p", ":", "/", "/", "e", "/", "p", "-", "a", ".", "h", "t", "m", "l">>
LinkOdd == <<"h", "t", "t", "p", ":", "/", "/", "e", "/", "a", ".", "h", "t", "m", "l", "/", "b", ".", "h", "t", "m", "l">>
LinkSettings == <<"t", "a", "g", ":", "b", "l", "o", "g", "g", "e", "r", ".", "c", "o", "m", ",", "1">>
LinkC == <<"c">>
HrefPlain == <<"u">>
HrefComments == <<"u", "/", "c", "o", "m", "m", "e", "n", "t", "s">>
TermPost == <<"k", "#", "p", "o", "s", "t">>
TermComment == <<"k", "#", "c", "o", "m", "m", "e", "n", "t">>
TermSettings == <<"k", "#", "s", "e", "t", "t", "i", "n", "g", "s">>
TermLabel == <<"f", "u", "n">>
Date1 == <<"2", "0", "1", "1", "-", "0", "1", "-", "0", "2", "T", "1", "0", ":", "0", "0">>
Date2 == <<"2", "0", "1", "1", "-", "0", "3", "-", "0", "4", "T", "0", "9", ":", "0", "0">>

\* A present field
Some(x) == <<x>>
\* An absent field
None == <<>>

Entry(link, href, tags, reply, published, title, summary, author) ==
    [link |-> link, href |-> href, tags |-> tags, reply |-> reply,
     published |-> published, title |-> title, summary |-> summary,
     author |-> author]

\* A well-formed post entry
PostEntry(link, tags, title) ==
    Entry(Some(link), Some(HrefPlain), tags, None, Some(Date1), Some(title),
          Some("body"), Some("owner"))

\* A well-formed comment entry
CommentEntry(reply, published, author) ==
    Entry(Some(LinkC), Some(HrefPlain), <<TermComment>>, Some(reply),
          Some(published), Some("re"), Some("text"), Some(author))

\* Entries that exercise correlation, file names and rendering
RenderEntries ==
    { PostEntry(LinkAB, <<TermPost>>, "T1"),
      PostEntry(LinkAB, <<KindPostSentinel, TermLabel>>, "T2"),
      PostEntry(LinkFlat, <<TermPost>>, "T3"),
      PostEntry(LinkPage, <<TermPost>>, "T4"),
      PostEntry(LinkOdd, <<TermPost>>, "T5"),
      CommentEntry(LinkAB, Date1, "Alice"),
      CommentEntry(LinkPage, Date2, "Bob"),
      \* a comment with no thr:in-reply-to element
      Entry(Some(LinkC), Some(HrefPlain), <<TermComment>>, None,
            Some(Date1), Some("re"), Some("text"), Some("Eve")),
      \* a comment with no author element
      Entry(Some(LinkC), Some(HrefPlain), <<TermComment>>, Some(LinkAB),
            Some(Date2), Some("re"), Some("text"), None),
      \* a post with neither summary nor content
      Entry(Some(LinkFlat), Some(HrefPlain), <<TermPost>>, None,
            Some(Date2), Some("T7"), None, Some("owner")) }

\* Entries that exercise the classification rules
ClassifyEntries ==
    { PostEntry(LinkAB, <<TermPost>>, "T1"),
      CommentEntry(LinkAB, Date1, "Alice"),
      \* settings link, comment category
      Entry(Some(LinkSettings), Some(HrefPlain), <<TermComment>>, None,
            Some(Date1), Some("s"), Some("v"), None),
      \* alternate reference of a comment feed
      Entry(Some(LinkAB), Some(HrefComments), <<TermComment>>, Some(LinkAB),
            Some(Date1), Some("s"), Some("v"), None),
      \* settings category first, comment category second
      Entry(Some(LinkC), Some(HrefPlain), <<TermSettings, TermComment>>,
            Some(LinkAB), Some(Date1), Some("s"), Some("v"), None),
      \* a label first, the comment kind second
      Entry(Some(LinkFlat), Some(HrefPlain), <<TermLabel, TermComment>>,
            Some(LinkAB), Some(Date1), Some("x"), Some("body"), Some("Al")),
      \* no author uri, hence no href key
      Entry(Some(LinkFlat), None, <<TermPost>>, None,
            Some(Date1), Some("T6"), Some("body"), None),
      \* the blog's own address
      PostEntry(SiteRoot, <<TermPost>>, "T8") }

RECURSIVE SeqsUpTo(_, _)
SeqsUpTo(S, n) ==
    IF n = 0 THEN {<<>>}
    ELSE LET shorter == SeqsUpTo(S, n - 1)
         IN  shorter \cup {Append(s, x) : s \in {t \in shorter : Len(t) = n - 1}, x \in S}

Feeds == SeqsUpTo(RenderEntries, MaxEntries) \cup SeqsUpTo(ClassifyEntries, MaxEntries)

\* ------------------------------------------------------------------------
\* State
\* ------------------------------------------------------------------------
VARIABLES
    data,            \* the parsed feed: [link, entries]
    show_original,   \* the --show-original option
    files,           \* output_dir: file name -> what was written to it
    run,             \* which invocation of main this is
    pc,              \* "classify", "correlate", "write", "done", "aborted"
    i,               \* position of the current loop
    posts,           \* dict link -> entry, as <<link, entry index>> in insertion order
    comments,        \* list of comment entries (entry indices)
    entry_comments,  \* entry index -> its entry["comments"] list
    warnings,        \* comments reported by the orphan warning
    errors,          \* entries reported by the KeyError handler
    kind,            \* entry index -> which branch of the classifier took it
    written,         \* the documents this run opened for writing, in order
    prev_files       \* output_dir as the previous run left it

vars == <<data, show_original, files, run, pc, i, posts, comments,
          entry_comments, warnings, errors, kind, written, prev_files>>

entries == data.entries
N == Len(entries)

\* ------------------------------------------------------------------------
\* The posts dictionary (insertion ordered, as a Python dict is)
\* ------------------------------------------------------------------------
DictHas(d, k) == \E j \in 1..Len(d) : d[j][1] = k

DictGet(d, k) == d[CHOOSE j \in 1..Len(d) : d[j][1] = k][2]

\* a dictionary that keeps the first value stored under a key
DictPutKeepFirst(d, k, v) ==
    IF DictHas(d, k) THEN d ELSE Append(d, <<k, v>>)

\* d[k] = v
DictPut(d, k, v) ==
    IF DictHas(d, k)
    THEN [j \in 1..Len(d) |-> IF d[j][1] = k THEN <<k, v>> ELSE d[j]]
    ELSE Append(d, <<k, v>>)

\* ------------------------------------------------------------------------
\* Classification (the body of the first loop)
\* ------------------------------------------------------------------------

\* entry.category: feedparser answers with the term of the first tag
Category(e) == e.tags[1]

\* a classifier that looks for the comment kind before the discard rules
ClassifyCommentFirst(e) ==
    IF Len(e.link) = 0 THEN "AttributeError"
    ELSE IF Len(e.href) = 0 THEN "KeyError"
    ELSE IF Len(e.tags) = 0 THEN "AttributeError"
    ELSE IF Contains(Category(e), CommentMarker) THEN "Comment"
    ELSE IF Contains(e.link[1], BloggerMarker) THEN "Discard"
    ELSE IF Contains(e.href[1], CommentsMarker) THEN "Discard"
    ELSE IF Contains(Category(e), SettingsMarker) THEN "Discard"
    ELSE "Post"

\* Which way an entry leaves the try block: one of the three `continue`s
\* ("Discard"), the comments list, the posts dict, the KeyError handler, or
\* an AttributeError, which no handler catches.
Classify(e) ==
    IF Len(e.link) = 0 THEN "AttributeError"
    ELSE IF Contains(e.link[1], BloggerMarker) THEN "Discard"
    ELSE IF Len(e.href) = 0 THEN "KeyError"
    ELSE IF Contains(e.href[1], CommentsMarker) THEN "Discard"
    ELSE IF Len(e.tags) = 0 THEN "AttributeError"
    ELSE IF Contains(Category(e), SettingsMarker) THEN "Discard"
    ELSE IF Contains(Category(e), CommentMarker) THEN "Comment"
    ELSE "Post"

\* ------------------------------------------------------------------------
\* Correlation (the body of the second loop)
\* ------------------------------------------------------------------------

\* What the loop body does with a comment, given the posts dict
Correlate(c, ps) ==
    IF Len(c.reply) = 0 THEN "KeyError"
    ELSE IF DictHas(ps, c.reply[1]) THEN "Attach"
    ELSE IF Len(c.title) = 0 THEN "AttributeError"
    ELSE "Warn"

\* an append that puts the comment in front
AttachInFront(ec, p, c) == [ec EXCEPT ![p] = <<c>> \o @]

\* an append that the same comment goes through twice
AttachTwice(ec, p, c) == [ec EXCEPT ![p] = Append(Append(@, c), c)]

\* posts[post_link]["comments"].append(comment)
Attach(ec, p, c) == [ec EXCEPT ![p] = Append(@, c)]

\* ------------------------------------------------------------------------
\* File name, front matter and document (the body of the third loop)
\* ------------------------------------------------------------------------

\* filename after the three replace calls that remove the site root
StrippedName(key, root) ==
    LET f1 == Replace(key, HtmlExt, MdExt)
        f2 == Replace(f1, root, Empty)
        link == Replace(root, Http, Https)
    IN  Replace(f2, link, Empty)

\* neither of the two `continue`s is taken
Retained(key, root) ==
    /\ Len(Strip(StrippedName(key, root))) # 0
    /\ ~StartsWith(StrippedName(key, root), PagePrefix)

FileName(key, root) == Replace(StrippedName(key, root), Slash, Dash)

Slug(filename) == Replace(filename, MdExt, Empty)

TagList(value, tag) ==
    Append(SelectSeq(value.tags, LAMBDA x : x # KindPostSentinel), tag)

Frontmatter(key, value, root, tag) ==
    [date |-> value.published[1],
     published |-> TRUE,
     slug |-> Slug(FileName(key, root)),
     tags |-> TagList(value, tag),
     time_to_read |-> TimeToRead,
     title |-> value.title[1],
     description |-> ""]

\* The writes of the inner loop over value["comments"]; ok is FALSE when a
\* KeyError ends them.
RECURSIVE CommentBlocks(_, _)
CommentBlocks(es, cs) ==
    IF Len(cs) = 0 THEN [out |-> <<>>, ok |-> TRUE]
    ELSE LET c == es[Head(cs)]
         IN  IF Len(c.author) = 0 \/ Len(c.published) = 0
             THEN [out |-> <<>>, ok |-> FALSE]
             ELSE LET head == [author |-> c.author[1],
                               date |-> FirstTen(c.published[1])]
                  IN  IF Len(c.summary) = 0
                      THEN [out |-> <<[head |-> head, body |-> None]>>,
                            ok |-> FALSE]
                      ELSE LET rest == CommentBlocks(es, Tail(cs))
                           IN  [out |-> <<[head |-> head, body |-> c.summary]>>
                                        \o rest.out,
                                ok |-> rest.ok]

\* Everything written between open() and the end of the with block; ok is
\* FALSE when a KeyError ends the writes early.
Document(key, value, es, cs, root, tag, show) ==
    LET fm == Frontmatter(key, value, root, tag)
        orig == IF show THEN Some(key) ELSE None
    IN  IF Len(value.summary) = 0
        THEN [doc |-> [frontmatter |-> fm, original |-> orig, body |-> None,
                       heading |-> None, blocks |-> <<>>],
              ok |-> FALSE]
        ELSE IF Len(cs) = 0
        THEN [doc |-> [frontmatter |-> fm, original |-> orig,
                       body |-> value.summary, heading |-> None,
                       blocks |-> <<>>],
              ok |-> TRUE]
        ELSE LET b == CommentBlocks(es, cs)
             IN  [doc |-> [frontmatter |-> fm, original |-> orig,
                           body |-> value.summary, heading |-> Some(Len(cs)),
                           blocks |-> b.out],
                  ok |-> b.ok]

\* open(path, "a"): what is written goes after what the file holds
WriteFileAppend(fs, name, doc) ==
    (name :> ((IF name \in DOMAIN fs THEN fs[name] ELSE <<>>) \o <<doc>>)) @@ fs

\* open(path, "w") and the writes: the file holds what was written, no more
WriteFile(fs, name, doc) == (name :> <<doc>>) @@ fs

\* How one iteration of the write loop ends
WriteOutcome(key, value, feedlink) ==
    IF Len(feedlink) = 0 THEN "KeyError"
    ELSE IF ~Retained(key, feedlink[1]) THEN "Skip"
    ELSE IF Len(value.published) = 0 \/ Len(value.title) = 0 THEN "KeyError"
    ELSE "Open"

\* ------------------------------------------------------------------------
\* Control: which loop runs next, and at which position
\* ------------------------------------------------------------------------
WriteStage(idx, ps) ==
    IF idx <= Len(ps) THEN <<"write", idx>> ELSE <<"done", 0>>

CorrelateStage(idx, cm, ps) ==
    IF idx <= Len(cm) THEN <<"correlate", idx>> ELSE WriteStage(1, ps)

ClassifyStage(idx, n, cm, ps) ==
    IF idx <= n THEN <<"classify", idx>> ELSE CorrelateStage(1, cm, ps)

Aborted == <<"aborted", 0>>

\* main up to the first loop: read and parse the file, empty collections
Parsed(n) ==
    /\ posts = <<>>
    /\ comments = <<>>
    /\ entry_comments = [j \in 1..n |-> <<>>]
    /\ warnings = <<>>
    /\ errors = <<>>
    /\ kind = [j \in 1..n |-> "none"]
    /\ written = <<>>
    /\ pc = ClassifyStage(1, n, <<>>, <<>>)[1]
    /\ i = ClassifyStage(1, n, <<>>, <<>>)[2]

Init ==
    /\ data \in {[link |-> Some(SiteRoot), entries |-> f] : f \in Feeds}
    /\ show_original \in BOOLEAN
    /\ files = <<>>
    /\ prev_files = <<>>
    /\ run = 1
    /\ Parsed(Len(data.entries))

\* One iteration of `for entry in data.entries`
ClassifyEntry ==
    /\ pc = "classify"
    /\ i <= N
    /\ LET e == entries[i]
           c == Classify(e)
           cm == IF c = "Comment" THEN Append(comments, i) ELSE comments
           ps == IF c = "Post" THEN DictPut(posts, e.link[1], i) ELSE posts
       IN  /\ kind' = [kind EXCEPT ![i] = c]
           /\ comments' = cm
           /\ posts' = ps
           /\ entry_comments' = IF c = "Post"
                                THEN [entry_comments EXCEPT ![i] = <<>>]
                                ELSE entry_comments
           /\ errors' = IF c = "KeyError" THEN Append(errors, i) ELSE errors
           /\ LET to == IF c = "AttributeError" THEN Aborted
                         ELSE ClassifyStage(i + 1, N, cm, ps)
              IN  pc' = to[1] /\ i' = to[2]
    /\ UNCHANGED <<data, show_original, files, run, warnings, written, prev_files>>

\* One iteration of `for comment in comments`
CorrelateComment ==
    /\ pc = "correlate"
    /\ i <= Len(comments)
    /\ LET c == comments[i]
           o == Correlate(entries[c], posts)
       IN  /\ entry_comments' =
                  IF o = "Attach"
                  THEN Attach(entry_comments, DictGet(posts, entries[c].reply[1]), c)
                  ELSE entry_comments
           /\ warnings' = IF o = "Warn" THEN Append(warnings, c) ELSE warnings
           /\ LET to == IF o \in {"KeyError", "AttributeError"} THEN Aborted
                         ELSE CorrelateStage(i + 1, comments, posts)
              IN  pc' = to[1] /\ i' = to[2]
    /\ UNCHANGED <<data, show_original, files, run, posts, comments, errors,
                   kind, written, prev_files>>

\* One iteration of `for key, value in posts_progress`
WritePost ==
    /\ pc = "write"
    /\ i <= Len(posts)
    /\ LET key == posts[i][1]
           p == posts[i][2]
           value == entries[p]
           o == WriteOutcome(key, value, data.link)
           d == Document(key, value, entries, entry_comments[p],
                         data.link[1], DefaultTag, show_original)
           name == FileName(key, data.link[1])
       IN  /\ files' = IF o = "Open" THEN WriteFile(files, name, d.doc) ELSE files
           /\ written' = IF o = "Open"
                         THEN Append(written, [key |-> key, entry |-> p,
                                               filename |-> name,
                                               complete |-> d.ok])
                         ELSE written
           /\ LET to == IF o = "KeyError" \/ (o = "Open" /\ ~d.ok) THEN Aborted
                         ELSE WriteStage(i + 1, posts)
              IN  pc' = to[1] /\ i' = to[2]
    /\ UNCHANGED <<data, show_original, run, posts, comments, entry_comments,
                   warnings, errors, kind, prev_files>>

\* The script is run again: same input file, options and output directory
Rerun ==
    /\ pc \in {"done", "aborted"}
    /\ run < MaxRuns
    /\ run' = run + 1
    /\ prev_files' = files
    /\ posts' = <<>>
    /\ comments' = <<>>
    /\ entry_comments' = [j \in 1..N |-> <<>>]
    /\ warnings' = <<>>
    /\ errors' = <<>>
    /\ kind' = [j \in 1..N |-> "none"]
    /\ written' = <<>>
    /\ pc' = ClassifyStage(1, N, <<>>, <<>>)[1]
    /\ i' = ClassifyStage(1, N, <<>>, <<>>)[2]
    /\ UNCHANGED <<data, show_original, files>>

Next == ClassifyEntry \/ CorrelateComment \/ WritePost \/ Rerun

Spec == Init /\ [][Next]_vars

TypeOK ==
    /\ pc \in {"classify", "correlate", "write", "done", "aborted"}
    /\ run \in 1..MaxRuns
    /\ Len(comments) <= N
    /\ Len(posts) <= N

\* ------------------------------------------------------------------------
\* Helpers of the properties
\* ------------------------------------------------------------------------
\* s ends with pat
EndsWith(s, pat) ==
    /\ Len(pat) <= Len(s)
    /\ SubSeq(s, Len(s) - Len(pat) + 1, Len(s)) = pat

InSeq(s, x) == \E k \in 1..Len(s) : s[k] = x

Count(s, x) == Cardinality({k \in 1..Len(s) : s[k] = x})

\* entry indices classified as c
Classified(c) == {j \in 1..N : kind[j] = c}

\* entry indices held by the posts dict
PostValues == {posts[k][2] : k \in 1..Len(posts)}

RECURSIVE TotalAttached(_)
TotalAttached(k) ==
    IF k = 0 THEN 0
    ELSE Len(entry_comments[posts[k][2]]) + TotalAttached(k - 1)

\* the classified comments that reply to link, in feed order, up to entry n
RECURSIVE RepliesTo(_, _)
RepliesTo(link, n) ==
    IF n = 0 THEN <<>>
    ELSE IF kind[n] = "Comment" /\ entries[n].reply = Some(link)
         THEN Append(RepliesTo(link, n - 1), n)
         ELSE RepliesTo(link, n - 1)

ClassificationOver == pc \in {"correlate", "write", "done"}
CorrelationOver == pc \in {"write", "done"}
RunOver == pc \in {"done", "aborted"}

\* ------------------------------------------------------------------------
\* C1: an entry that lacks an expected attribute never stops the run; the
\* run always reaches completion.  Stated as: no run is ever aborted by an
\* exception.
\* ------------------------------------------------------------------------
C1_RunNeverAborts == pc # "aborted"

\* ------------------------------------------------------------------------
\* C2: after the correlation pass, the comments attached across all posts
\* plus the orphan warnings number the entries classified as Comment, and no
\* comment occurs in two posts' sequences nor twice in one.
\* ------------------------------------------------------------------------
C2_AttachedPlusOrphans ==
    CorrelationOver =>
        /\ TotalAttached(Len(posts)) + Len(warnings)
               = Cardinality(Classified("Comment"))
        /\ \A c \in 1..N :
               Cardinality({p \in PostValues : InSeq(entry_comments[p], c)}) <= 1
        /\ \A p \in PostValues, c \in 1..N : Count(entry_comments[p], c) <= 1

C2_Witness ==
    /\ pc = "done"
    /\ Len(warnings) > 0
    /\ TotalAttached(Len(posts)) > 0

\* ------------------------------------------------------------------------
\* C3: after correlation, the comment sequence of every post of the posts
\* collection is exactly the classified comments whose reply target is that
\* post's link, in feed order, wherever the post stands in the feed.
\* ------------------------------------------------------------------------
C3_CommentsOfPost ==
    CorrelationOver =>
        \A k \in 1..Len(posts) :
            entry_comments[posts[k][2]] = RepliesTo(posts[k][1], N)

C3_Witness ==
    /\ pc = "done"
    /\ \E k \in 1..Len(posts) :
           /\ Len(entry_comments[posts[k][2]]) = 2
           /\ entry_comments[posts[k][2]][1] < posts[k][2]
           /\ posts[k][2] < entry_comments[posts[k][2]][2]

\* ------------------------------------------------------------------------
\* C4: the classifier assigns every entry with all fields present to
\* exactly one of Post, Comment, Discard by the ordered rules; an entry that
\* matches a Discard rule reaches neither the comments list nor the posts
\* map.
\* ------------------------------------------------------------------------
AllFieldsPresent(e) == Len(e.link) > 0 /\ Len(e.href) > 0 /\ Len(e.tags) > 0

AnyTerm(e, marker) == \E k \in 1..Len(e.tags) : Contains(e.tags[k], marker)

FirstTerm(e, marker) == Contains(e.tags[1], marker)

DiscardByLinkOrHref(e) ==
    \/ Contains(e.link[1], BloggerMarker)
    \/ Contains(e.href[1], CommentsMarker)

\* where the entry of index j is, given the class the rules give it
PlacedAs(j, class) ==
    /\ kind[j] = class
    /\ Count(comments, j) = (IF class = "Comment" THEN 1 ELSE 0)
    /\ class # "Post" => j \notin PostValues
    /\ class = "Post" =>
           \E k \in 1..Len(posts) :
               /\ posts[k][1] = entries[j].link[1]
               /\ posts[k][2] >= j

\* C4 as claimed: rules 3 and 4 look at any category term
C4_RulesAnyTerm ==
    \A j \in 1..N :
        (kind[j] # "none" /\ AllFieldsPresent(entries[j])) =>
            PlacedAs(j, IF \/ DiscardByLinkOrHref(entries[j])
                           \/ AnyTerm(entries[j], SettingsMarker)
                        THEN "Discard"
                        ELSE IF AnyTerm(entries[j], CommentMarker)
                        THEN "Comment"
                        ELSE "Post")

\* C4 as amended: rules 3 and 4 look at the first category term only
C4_RulesFirstTerm ==
    \A j \in 1..N :
        (kind[j] # "none" /\ AllFieldsPresent(entries[j])) =>
            PlacedAs(j, IF \/ DiscardByLinkOrHref(entries[j])
                           \/ FirstTerm(entries[j], SettingsMarker)
                        THEN "Discard"
                        ELSE IF FirstTerm(entries[j], CommentMarker)
                        THEN "Comment"
                        ELSE "Post")

C4_Witness ==
    /\ ClassificationOver
    /\ \E j \in Classified("Discard") :
           /\ AnyTerm(entries[j], CommentMarker)
           /\ Contains(entries[j].link[1], BloggerMarker)
    /\ Classified("Comment") # {}
    /\ Classified("Post") # {}

\* ------------------------------------------------------------------------
\* C5: for a retained post whose link is the site root (as the feed
\* declares it, or in its https form) followed by a path P ending in
\* `.html`, the file name is P with the `.html` suffix replaced by `.md`
\* and every `/` replaced by `-`.
\* ------------------------------------------------------------------------
HttpsForm(root) ==
    IF StartsWith(root, Http) /\ ~StartsWith(root, Https)
    THEN Https \o SubSeq(root, Len(Http) + 1, Len(root))
    ELSE root

UnderRoot(key, root) ==
    StartsWith(key, root) \/ StartsWith(key, HttpsForm(root))

PathUnderRoot(key, root) ==
    IF StartsWith(key, root)
    THEN SubSeq(key, Len(root) + 1, Len(key))
    ELSE SubSeq(key, Len(HttpsForm(root)) + 1, Len(key))

Flattened(path) ==
    [k \in 1..Len(path) |-> IF path[k] = "/" THEN "-" ELSE path[k]]

NameOfPath(path) ==
    Flattened(SubSeq(path, 1, Len(path) - Len(HtmlExt)) \o MdExt)

C5_FileNameOfPath ==
    \A w \in 1..Len(written) :
        LET key == written[w].key
            root == data.link[1]
        IN  (UnderRoot(key, root) /\ EndsWith(PathUnderRoot(key, root), HtmlExt))
                => written[w].filename = NameOfPath(PathUnderRoot(key, root))

\* ------------------------------------------------------------------------
\* C6: for every output document of a post whose link ends in `.html`, the
\* file name is the front-matter slug followed by `.md`.
\* ------------------------------------------------------------------------
C6_FileNameIsSlugMd ==
    \A w \in 1..Len(written) :
        EndsWith(written[w].key, HtmlExt) =>
            written[w].filename
                = files[written[w].filename][1].frontmatter.slug \o MdExt

\* ------------------------------------------------------------------------
\* C7: a run writes exactly one file per retained post: a post of the posts
\* map gets a document iff its root-stripped name is neither blank nor
\* starts with `p-`, distinct retained posts get distinct file names, and
\* after a run into an empty directory the files number the retained posts
\* (at most the entries classified as Post).
\* ------------------------------------------------------------------------
RetainedPosts == {k \in 1..Len(posts) : Retained(posts[k][1], data.link[1])}

C7_OneFilePerRetainedPost ==
    (run = 1 /\ pc = "done") =>
        /\ \A k \in 1..Len(posts) :
               (\E w \in 1..Len(written) : written[w].key = posts[k][1])
                   <=> k \in RetainedPosts
        /\ \A v, w \in 1..Len(written) :
               v # w => written[v].filename # written[w].filename
        /\ Cardinality(DOMAIN files) = Cardinality(RetainedPosts)
        /\ Cardinality(DOMAIN files) <= Cardinality(Classified("Post"))

\* ------------------------------------------------------------------------
\* C8: running the pipeline again with the same feed, tag, show-original
\* option and output directory leaves the directory with the same files and
\* the same contents; a file that exists at a derived path is replaced by
\* the document, never appended to.
\* ------------------------------------------------------------------------
LastWriter(w) ==
    \A v \in (w + 1)..Len(written) : written[v].filename # written[w].filename

DocumentOf(w) ==
    Document(written[w].key, entries[written[w].entry], entries,
             entry_comments[written[w].entry], data.link[1], DefaultTag,
             show_original).doc

C8_Idempotent ==
    /\ (run > 1 /\ RunOver) => files = prev_files
    /\ \A w \in 1..Len(written) :
           LastWriter(w) => files[written[w].filename] = <<DocumentOf(w)>>

C8_Witness ==
    /\ run = 2
    /\ pc = "done"
    /\ \E name \in DOMAIN files : Len(files[name][1].blocks) > 0
    /\ \E w \in 1..Len(written) : ~LastWriter(w)

\* ------------------------------------------------------------------------
\* C9: when several entries classified as Post share a link, the posts map
\* holds only the last of them in feed order, at most one document is
\* written for the link, with the last entry's title, date, tags and body,
\* and every comment replying to the link is attached to the last entry.
\* ------------------------------------------------------------------------
PostsWithLink(link) ==
    {j \in Classified("Post") : entries[j].link = Some(link)}

LastPost(link) ==
    CHOOSE j \in PostsWithLink(link) : \A h \in PostsWithLink(link) : h <= j

C9_LastWriteWins ==
    ClassificationOver =>
        \A j \in Classified("Post") :
            LET link == entries[j].link[1]
                last == LastPost(link)
            IN  /\ Cardinality({k \in 1..Len(posts) : posts[k][1] = link}) = 1
                /\ DictGet(posts, link) = last
                /\ Cardinality({w \in 1..Len(written) : written[w].key = link}) <= 1
                /\ \A w \in 1..Len(written) :
                       (written[w].key = link /\ LastWriter(w)) =>
                           LET doc == files[written[w].filename][1]
                           IN  /\ written[w].entry = last
                               /\ Some(doc.frontmatter.title) = entries[last].title
                               /\ Some(doc.frontmatter.date) = entries[last].published
                               /\ doc.frontmatter.tags = TagList(entries[last], DefaultTag)
                               /\ doc.body = entries[last].summary
                /\ CorrelationOver =>
                       /\ entry_comments[last] = RepliesTo(link, N)
                       /\ j # last => entry_comments[j] = <<>>

C9_Witness ==
    /\ pc = "done"
    /\ \E j \in Classified("Post") :
           /\ j # LastPost(entries[j].link[1])
           /\ Len(entry_comments[LastPost(entries[j].link[1])]) > 0
           /\ \E w \in 1..Len(written) :
                  written[w].entry = LastPost(entries[j].link[1])

\* ------------------------------------------------------------------------
\* C10: at the end of a run that completes, every entry classified as
\* Comment is rendered in the comments block of exactly one written
\* document or was reported by an orphan warning, also when its parent post
\* is filtered out at the render stage.
\* ------------------------------------------------------------------------
C10_NoCommentLost ==
    pc = "done" =>
        \A c \in Classified("Comment") :
            \/ InSeq(warnings, c)
            \/ Cardinality({w \in 1..Len(written) :
                   /\ LastWriter(w)
                   /\ InSeq(entry_comments[written[w].entry], c)}) = 1

====
